---- MODULE Spec2Model ----
(***************************************************************************)
(* Model of the zeroerr_arm EtherCAT interface node (ZeroErrInterface):    *)
(* the cyclic PDO exchange loop, the slave operational gate, the CiA 402   *)
(* drive state machine and the command callback.                           *)
(*                                                                         *)
(* Every callback of the node runs to completion on the single-threaded    *)
(* executor (rclcpp::spin), so each callback is one action.  The values a  *)
(* callback obtains from outside the node (the process data received from  *)
(* the drives, the slave configuration state, the wall clock, the inbound  *)
(* message) are the parameters of its action.                              *)
(***************************************************************************)
EXTENDS Integers, Sequences, FiniteSets, TLC

VARIABLES
    joint_no_,                \* cursor shared by the gate and the state machine
    joints_OP_,               \* all joints reached EtherCAT OP
    joints_op_enabled_,       \* result of the last state_transition_
    driveState,               \* recorded CiA 402 state per joint
    ctrl_word,                \* domain_pd + ctrl_word_offset[j]
    status_word,              \* domain_pd + status_word_offset[j]
    target_pos,               \* domain_pd + target_pos_offset[j]
    actual_pos,               \* domain_pd + actual_pos_offset[j]
    joint_states_enc_counts_, \* ActualPosition cache
    joint_commands_,          \* JointCommand
    joint_ec_states,          \* operational flag of the last polled slave state
    counter_,                 \* housekeeping down-counter
    stamp_,                   \* time of activation / of the last master reset
    clock,                    \* wall clock, whole seconds (this->now().seconds())
    startup_pos,              \* position of each drive when the node started
    bus_calls,                \* calls made by the last cycle, in order
    tp_writes,                \* TargetPosition writes made by the last cycle, in order
    cw_writes,                \* joints whose ControlWord the last cycle wrote, in order
    log_,                     \* state-change log entries of the last cycle, in order
    joint_states_,            \* position field of the outbound JointState message
    published,                \* joint_state_pub_ has published a message
    cmd_oob,                  \* writes of the last arm_cmd_cb_ beyond joint_commands_
    timers_,                  \* the two wall timers exist (constructor succeeded)
    init_calls,               \* startup calls attempted by the constructor, in order
    cycles,                   \* bound: cyclic_pdo_loop_ (joy_cb_ in SpecJoy) runs so far
    commanded,                \* a command message has been received
    stalls,                   \* bound: cycles in which a drive was not OPERATION_ENABLED
    seq_idx,                  \* length of the prefix of BringUpSeq fed to the cursor joint
    link_op,                  \* operational state of each slave link
    enabled_,                 \* GameController: input enabled
    enable_cmd_toggle_,       \* GameController: GUIDE is armed (rising edge)
    servo_cmd_toggle_,        \* GameController: MENU is armed
    dpad_toggle_,             \* GameController: the DPAD is armed
    command_type,             \* GameController: servo_command_type_->command_type
    joint_num_,               \* GameController: joint jogged in JointJog mode
    joint_vel_cmd_,           \* GameController: jog speed, tenths of rad/s
    cartesian_step_size_,     \* GameController: Cartesian step, hundredths
    joy_pub,                  \* what the last joy_cb_ published, in order
    joy_                      \* the Joy message of the last joy_cb_

vars == << joint_no_, joints_OP_, joints_op_enabled_, driveState, ctrl_word,
           status_word, target_pos, actual_pos, joint_states_enc_counts_,
           joint_commands_, joint_ec_states, counter_, stamp_, clock,
           startup_pos, bus_calls, tp_writes, cw_writes, log_, joint_states_,
           published, cmd_oob, timers_, init_calls, cycles, commanded, stalls,
           seq_idx, link_op, enabled_, enable_cmd_toggle_, servo_cmd_toggle_,
           dpad_toggle_, command_type, joint_num_, joint_vel_cmd_,
           cartesian_step_size_, joy_pub, joy_ >>

\* the state of the GameController node
arm_vars == << joint_no_, joints_OP_, joints_op_enabled_, driveState, ctrl_word,
               status_word, target_pos, actual_pos, joint_states_enc_counts_,
               joint_commands_, joint_ec_states, counter_, stamp_, clock,
               startup_pos, bus_calls, tp_writes, cw_writes, log_, joint_states_,
               published, cmd_oob, timers_, init_calls >>

gc_vars == << enabled_, enable_cmd_toggle_, servo_cmd_toggle_, dpad_toggle_,
             command_type, joint_num_, joint_vel_cmd_, cartesian_step_size_,
             joy_pub, joy_ >>

(***************************************************************************)
(* Program constants.                                                      *)
(***************************************************************************)
NUM_JOINTS == 6

Joints == 0 .. (NUM_JOINTS - 1)

OP_TIMEOUT == 10

MSEC_PER_SEC == 1000

WORD == 65536

DriveStates == { "NOT_READY", "SWITCH_ON_DISABLED", "READY", "SWITCHED_ON",
                 "OPERATION_ENABLED", "QUICK_STOP_ACTIVE",
                 "FAULT_REACTION_ACTIVE", "FAULT" }

(***************************************************************************)
(* Bounds of the model.                                                    *)
(***************************************************************************)
\* cyclic_pdo_loop_ runs explored per behaviour of SpecGate
MaxCycles == 8

\* cyclic_pdo_loop_ runs explored per behaviour of SpecJoint
MaxJointCycles == 6

\* cycles per behaviour of Spec in which the drive under the cursor reports
\* a status other than OPERATION_ENABLED
MaxStalls == 1

\* seconds of wall clock explored
MaxTime == 21

\* encoder counts of one turn (MAX_COUNT of zeroerr_interface.h)
MAX_COUNT == 8

\* cycles per behaviour of SpecFault in which a drive starts to report a fault
MaxFaults == 1

\* cyclic_pdo_loop_ runs explored per behaviour of SpecFault
MaxFaultCycles == 14

\* turns of the encoder explored on either side of zero
MaxTurns == 4

\* cyclic_pdo_loop_ runs explored per behaviour of SpecLoop
MaxLoopCycles == 14

\* longest position sequence of a command message of SpecCommand
MaxMsgLen == 7

\* links that leave the operational state per behaviour of SpecLink
MaxDrops == 1

\* cyclic_pdo_loop_ runs explored per behaviour of SpecLink
MaxLinkCycles == 8

\* cycle frequency in Hz; the housekeeping counter is reloaded with
\* 1000 / (MSEC_PER_SEC / FREQUENCY)
FREQUENCY == 1

(***************************************************************************)
(* Bit operations on unsigned words.                                       *)
(***************************************************************************)
RECURSIVE BitAnd(_, _)
BitAnd(a, b) ==
    IF a = 0 \/ b = 0 THEN 0
    ELSE (a % 2) * (b % 2) + 2 * BitAnd(a \div 2, b \div 2)

RECURSIVE BitOr(_, _)
BitOr(a, b) ==
    IF a = 0 THEN b
    ELSE IF b = 0 THEN a
    ELSE (IF (a % 2) + (b % 2) > 0 THEN 1 ELSE 0) + 2 * BitOr(a \div 2, b \div 2)

(***************************************************************************)
(* state_transition_: the CiA 402 table.  StatusRow is the branch of the   *)
(* if / else-if chain that a status word takes, tested in source order.    *)
(***************************************************************************)
\* mutant: the QUICK_STOP_ACTIVE test masks with 0b01001111
RowTestsQuickStopMask ==
    << << 79, 0, "NOT_READY" >>,
       << 79, 64, "SWITCH_ON_DISABLED" >>,
       << 111, 33, "READY" >>,
       << 111, 35, "SWITCHED_ON" >>,
       << 111, 39, "OPERATION_ENABLED" >>,
       << 79, 7, "QUICK_STOP_ACTIVE" >>,
       << 79, 15, "FAULT_REACTION_ACTIVE" >>,
       << 79, 8, "FAULT" >> >>

\* the tests << mask, pattern, state >> of the chain, in source order
RowTests ==
    << << 79, 0, "NOT_READY" >>,
       << 79, 64, "SWITCH_ON_DISABLED" >>,
       << 111, 33, "READY" >>,
       << 111, 35, "SWITCHED_ON" >>,
       << 111, 39, "OPERATION_ENABLED" >>,
       << 111, 7, "QUICK_STOP_ACTIVE" >>,
       << 79, 15, "FAULT_REACTION_ACTIVE" >>,
       << 79, 8, "FAULT" >> >>

\* the test i of the chain succeeds on the status word s
RowMatches(i, s) == BitAnd(s, RowTests[i][1]) = RowTests[i][2]

\* the first test from i on that succeeds
RECURSIVE RowFrom(_, _)
RowFrom(s, i) ==
    IF i > Len(RowTests) THEN "NONE"
    ELSE IF RowMatches(i, s) THEN RowTests[i][3]
    ELSE RowFrom(s, i + 1)

StatusRow(s) == RowFrom(s, 1)

\* mutant: the READY branch masks with 0b01111111 like its neighbours
ControlWordAfterReadyMask(row, c) ==
    CASE row = "SWITCH_ON_DISABLED"    -> BitOr(BitAnd(c, 126), 6) % WORD
      [] row = "READY"                 -> BitOr(BitAnd(c, 127), 7) % WORD
      [] row = "SWITCHED_ON"           -> BitOr(BitAnd(c, 127), 15) % WORD
      [] row = "QUICK_STOP_ACTIVE"     -> BitOr(BitAnd(c, 127), 15) % WORD
      [] row = "FAULT_REACTION_ACTIVE" -> 128
      [] row = "FAULT"                 -> BitOr(BitAnd(c, 255), 128) % WORD
      [] OTHER                         -> c

\* mutant: the SWITCHED_ON branch repeats the switch-on word
ControlWordAfterNoEnable(row, c) ==
    CASE row = "SWITCH_ON_DISABLED"    -> BitOr(BitAnd(c, 126), 6) % WORD
      [] row = "READY"                 -> BitOr(BitAnd(c, 119), 7) % WORD
      [] row = "SWITCHED_ON"           -> BitOr(BitAnd(c, 119), 7) % WORD
      [] row = "QUICK_STOP_ACTIVE"     -> BitOr(BitAnd(c, 127), 15) % WORD
      [] row = "FAULT_REACTION_ACTIVE" -> 128
      [] row = "FAULT"                 -> BitOr(BitAnd(c, 255), 128) % WORD
      [] OTHER                         -> c

\* the control word left in the domain by the branch `row`, c the word read
ControlWordAfter(row, c) ==
    CASE row = "SWITCH_ON_DISABLED"    -> BitOr(BitAnd(c, 126), 6) % WORD
      [] row = "READY"                 -> BitOr(BitAnd(c, 119), 7) % WORD
      [] row = "SWITCHED_ON"           -> BitOr(BitAnd(c, 127), 15) % WORD
      [] row = "QUICK_STOP_ACTIVE"     -> BitOr(BitAnd(c, 127), 15) % WORD
      [] row = "FAULT_REACTION_ACTIVE" -> 128
      [] row = "FAULT"                 -> BitOr(BitAnd(c, 255), 128) % WORD
      [] OTHER                         -> c

\* mutant: the READY branch does not record the state
DriveStateAfterNoReady(row, d) == IF row \in { "NONE", "READY" } THEN d ELSE row

\* mutant: a status word that matches no test records NOT_READY
DriveStateAfterNoneResets(row, d) == IF row = "NONE" THEN "NOT_READY" ELSE row

\* the recorded drive state after the branch `row`, d the state recorded before
DriveStateAfter(row, d) == IF row = "NONE" THEN d ELSE row

\* mutant: the snap is taken on every cycle but the edge into SWITCHED_ON
SnapsTargetOffEdge(row, d, cur, tgt) ==
    row = "SWITCHED_ON" /\ d = "SWITCHED_ON" /\ cur # tgt

\* mutant: the snap is taken in every SWITCHED_ON cycle
SnapsTargetEveryCycle(row, d, cur, tgt) == row = "SWITCHED_ON" /\ cur # tgt

\* the branch snaps TargetPosition to ActualPosition: only on the edge into
\* SWITCHED_ON, and only when the two differ
SnapsTarget(row, d, cur, tgt) ==
    row = "SWITCHED_ON" /\ d # "SWITCHED_ON" /\ cur # tgt

\* the branch writes the ControlWord of the joint
WritesControlWord(row) ==
    row \in { "SWITCH_ON_DISABLED", "READY", "SWITCHED_ON", "QUICK_STOP_ACTIVE",
              "FAULT_REACTION_ACTIVE", "FAULT" }

\* the branch logs the state: QUICK_STOP_ACTIVE and FAULT_REACTION_ACTIVE
\* log without comparing with the recorded state
LogsState(row, d) ==
    CASE row \in { "QUICK_STOP_ACTIVE", "FAULT_REACTION_ACTIVE" } -> TRUE
      [] row = "NONE" -> FALSE
      [] OTHER -> d # row

\* mutant: the cursor advances whatever the status word reads
CursorAfterAlways(row, jn) == jn + 1

\* the cursor after the branch, before the end-of-sweep test
CursorAfter(row, jn) == IF row = "OPERATION_ENABLED" THEN jn + 1 ELSE jn

\* mutant: the sweep ends one joint early
SweepDoneEarly(jn) == jn = NUM_JOINTS - 1

\* the end-of-sweep test of state_transition_
SweepDone(jn) == jn = NUM_JOINTS

(***************************************************************************)
(* state_transition_ on the joint under the cursor, reading the domain as  *)
(* received this cycle (sw, ap) and the outputs left by earlier cycles.    *)
(***************************************************************************)
\* the effect of the branch `row` on the joint under the cursor
TransitionOf(row, cur) ==
    LET j == joint_no_
    IN  [ ctrl |-> [ctrl_word EXCEPT ![j] = ControlWordAfter(row, ctrl_word[j])],
          ds   |-> [driveState EXCEPT ![j] = DriveStateAfter(row, driveState[j])],
          tgt  |-> IF SnapsTarget(row, driveState[j], cur, target_pos[j])
                   THEN [target_pos EXCEPT ![j] = cur] ELSE target_pos,
          tpw  |-> IF SnapsTarget(row, driveState[j], cur, target_pos[j])
                   THEN << <<j, "snap">> >> ELSE << >>,
          cww  |-> IF WritesControlWord(row) THEN << j >> ELSE << >>,
          log  |-> IF LogsState(row, driveState[j]) THEN << <<j, row>> >> ELSE << >>,
          jn   |-> IF SweepDone(CursorAfter(row, j)) THEN 0 ELSE CursorAfter(row, j),
          ret  |-> SweepDone(CursorAfter(row, j)) ]

state_transition_(sw, ap) == TransitionOf(StatusRow(sw[joint_no_]), ap[joint_no_])

(***************************************************************************)
(* check_slave_config_states_: op is the operational flag that             *)
(* ecrt_slave_config_state reports for the joint under the cursor.         *)
(***************************************************************************)
\* mutant: the cursor advances whether or not the joint is operational
GateCursorAfterAlways(op, jn) == jn + 1

GateCursorAfter(op, jn) == IF op THEN jn + 1 ELSE jn

\* mutant: the sweep ends one joint early
GateDoneEarly(jn) == jn = 5

\* mutant: the gate never finds the sweep complete
GateDoneNever(jn) == FALSE

GateDone(jn) == jn = 6

check_slave_config_states_(op) ==
    LET j  == joint_no_
        jn == GateCursorAfter(op, j)
    IN  [ ec  |-> [joint_ec_states EXCEPT ![j] = op],
          jn  |-> IF GateDone(jn) THEN 0 ELSE jn,
          ret |-> GateDone(jn) ]

(***************************************************************************)
(* cyclic_pdo_loop_.                                                       *)
(***************************************************************************)
CYCLIC_DATA_PERIOD == MSEC_PER_SEC \div FREQUENCY

CounterReload == 1000 \div CYCLIC_DATA_PERIOD

\* mutant: the retry test is strict
TimedOutStrict(t, stamp) == (t - stamp) > OP_TIMEOUT

\* the retry test of the gate branch
TimedOut(t, stamp) == (t - stamp) >= OP_TIMEOUT

\* mutant: the targets are written in every cycle
WritesCommandsAlways(op_enabled) == TRUE

\* the condition under which the loop writes the targets from JointCommand
WritesCommands(op_enabled) == op_enabled

\* the target positions after the JointCommand loop
CommandTargets == [j \in Joints |-> joint_commands_[j]]

CommandWrites == [i \in 1 .. NUM_JOINTS |-> <<i - 1, "cmd">>]

\* mutant: the retry does not receive again
CycleCallsNoRetryReceive(gate, retry, writes) ==
    << "receive", "process" >>
    \o (IF gate THEN << "check_slave_config_states_" >> ELSE << "state_transition_" >>)
    \o (IF retry THEN << "reset" >> ELSE << >>)
    \o (IF writes THEN << "write_targets" >> ELSE << >>)
    \o << "queue", "send" >>

\* the calls of one cycle, in order: gate tells which branch ran, retry
\* whether the gate branch reset the master, writes whether the JointCommand
\* loop ran
CycleCalls(gate, retry, writes) ==
    << "receive", "process" >>
    \o (IF gate THEN << "check_slave_config_states_" >> ELSE << "state_transition_" >>)
    \o (IF retry THEN << "reset", "receive", "process" >> ELSE << >>)
    \o (IF writes THEN << "write_targets" >> ELSE << >>)
    \o << "queue", "send" >>

\* mutant: the cache loop stops after three joints
CacheAfterPartial(ap) ==
    [j \in Joints |-> IF j < 3 THEN ap[j] ELSE joint_states_enc_counts_[j]]

\* the ActualPosition cache after the read loop
CacheAfter(ap) == [j \in Joints |-> ap[j]]

\* mutant: the gate runs in every cycle
RunsStateMachineNever(all_op) == FALSE

\* the branch taken on joints_OP_
RunsStateMachine(all_op) == all_op

cyclic_pdo_loop_(sw, ap, op) ==
    /\ timers_
    /\ status_word' = sw
    /\ actual_pos' = ap
    /\ joint_states_enc_counts_' = CacheAfter(ap)
    /\ counter_' = IF counter_ # 0 THEN counter_ - 1 ELSE CounterReload
    /\ IF RunsStateMachine(joints_OP_)
          THEN \E r \in { state_transition_(sw, ap) } :
                   /\ joints_op_enabled_' = r.ret
                   /\ joint_no_' = r.jn
                   /\ driveState' = r.ds
                   /\ ctrl_word' = r.ctrl
                   /\ target_pos' = IF WritesCommands(r.ret) THEN CommandTargets ELSE r.tgt
                   /\ tp_writes' = IF WritesCommands(r.ret) THEN r.tpw \o CommandWrites ELSE r.tpw
                   /\ cw_writes' = r.cww
                   /\ log_' = r.log
                   /\ bus_calls' = CycleCalls(FALSE, FALSE, WritesCommands(r.ret))
                   /\ UNCHANGED << joints_OP_, joint_ec_states, stamp_ >>
          ELSE \E g \in { check_slave_config_states_(op) }, retry \in { TimedOut(clock, stamp_) } :
                   /\ joints_OP_' = g.ret
                   /\ joint_no_' = g.jn
                   /\ joint_ec_states' = g.ec
                   /\ stamp_' = IF retry THEN clock ELSE stamp_
                   /\ bus_calls' = CycleCalls(TRUE, retry, WritesCommands(joints_op_enabled_))
                   /\ target_pos' = IF WritesCommands(joints_op_enabled_)
                                    THEN CommandTargets ELSE target_pos
                   /\ tp_writes' = IF WritesCommands(joints_op_enabled_)
                                   THEN CommandWrites ELSE << >>
                   /\ cw_writes' = << >>
                   /\ log_' = << >>
                   /\ UNCHANGED << joints_op_enabled_, driveState, ctrl_word >>
    /\ UNCHANGED gc_vars
    /\ UNCHANGED << joint_commands_, clock, startup_pos, timers_, init_calls,
                    joint_states_, published, cmd_oob >>

(***************************************************************************)
(* convert_count_to_rad_ and joint_state_pub_.  Counts are 32-bit signed   *)
(* integers.  A value in radians is kept as the count that is scaled and   *)
(* the scale: [num |-> n, den |-> COUNT_PER_RAD] stands for n/COUNT_PER_RAD.*)
(***************************************************************************)
COUNT_PER_RAD == 83443

COUNT_TO_RAD(x) == [num |-> x, den |-> COUNT_PER_RAD]

INT32_MAX == 2147483647

INT32_MIN == (-2147483647) - 1

\* abs(int): the negation of INT32_MIN overflows, which is undefined; the
\* outcome of the negate instruction is INT32_MIN again
abs(c) == IF c = INT32_MIN THEN INT32_MIN ELSE IF c < 0 THEN -c ELSE c

\* operator % of C++ on int, for a positive divisor: the remainder has the
\* sign of the dividend
Rem(a, b) == IF a >= 0 THEN a % b ELSE -((-(a + b)) % b)

\* mutant: every count is folded
FoldTestsAlways(counts) == { TRUE }

\* the test `(counts > 0) ? (counts > MAX_COUNT) : (abs(counts) > MAX_COUNT)`.
\* For counts = INT32_MIN the call of abs is undefined: a build that
\* negates yields INT32_MIN and the test is false; a build that rewrites
\* the test as counts < -MAX_COUNT finds it true.
FoldTests(counts) ==
    IF counts = INT32_MIN THEN BOOLEAN
    ELSE { IF counts > 0 THEN counts > MAX_COUNT ELSE abs(counts) > MAX_COUNT }

\* scaled_counts of the folding branch
FoldedCounts(counts) ==
    IF counts > 0 THEN MAX_COUNT - Rem(counts, MAX_COUNT)
    ELSE -(MAX_COUNT - Rem(abs(counts), MAX_COUNT))

\* the value returned when the test comes out as `fold`
ScaledBy(counts, fold) ==
    COUNT_TO_RAD(IF fold THEN FoldedCounts(counts) ELSE counts)

\* the values that convert_count_to_rad_(counts) can return
convert_count_to_rad_(counts) ==
    { ScaledBy(counts, fold) : fold \in FoldTests(counts) }

\* mutant: the publisher clears the cache after publishing
joint_state_pub_ClearsCache ==
    /\ timers_
    /\ \E folds \in [Joints -> BOOLEAN] :
          /\ \A j \in Joints : folds[j] \in FoldTests(joint_states_enc_counts_[j])
          /\ joint_states_' =
                [j \in Joints |-> ScaledBy(joint_states_enc_counts_[j], folds[j])]
    /\ published' = TRUE
    /\ joint_states_enc_counts_' = [j \in Joints |-> 0]
    /\ UNCHANGED gc_vars
    /\ UNCHANGED << joint_no_, joints_OP_, joints_op_enabled_, driveState,
                    ctrl_word, status_word, target_pos, actual_pos,
                    joint_commands_, joint_ec_states,
                    counter_, stamp_, clock, startup_pos, bus_calls, tp_writes,
                    cw_writes, log_, cmd_oob, timers_, init_calls >>

\* folds[j] is the outcome of the test in the call for joint j
joint_state_pub_ ==
    /\ timers_
    /\ \E folds \in [Joints -> BOOLEAN] :
          /\ \A j \in Joints : folds[j] \in FoldTests(joint_states_enc_counts_[j])
          /\ joint_states_' =
                [j \in Joints |-> ScaledBy(joint_states_enc_counts_[j], folds[j])]
    /\ published' = TRUE
    /\ UNCHANGED gc_vars
    /\ UNCHANGED << joint_no_, joints_OP_, joints_op_enabled_, driveState,
                    ctrl_word, status_word, target_pos, actual_pos,
                    joint_states_enc_counts_, joint_commands_, joint_ec_states,
                    counter_, stamp_, clock, startup_pos, bus_calls, tp_writes,
                    cw_writes, log_, cmd_oob, timers_, init_calls >>

(***************************************************************************)
(* arm_cmd_cb_: msg is the position sequence of the inbound message, in    *)
(* radians.                                                                *)
(***************************************************************************)
RAD_TO_COUNT(x) == x * COUNT_PER_RAD

\* no write beyond the end of joint_commands_
NoOob == [idx |-> { }, harm |-> FALSE]

\* the indices i of the loop `i < arm_cmd->position.size()` that lie beyond
\* the NUM_JOINTS entries of joint_commands_
BeyondEnd(msg) == { i \in 0 .. (Len(msg) - 1) : i >= NUM_JOINTS }

\* operator[] of std::vector does not check the index: a write beyond the
\* end is undefined; it lands in the heap behind the storage, where it may
\* or may not damage another object
arm_cmd_cb_(msg) ==
    /\ init_calls # << >>
    /\ joint_commands_' = [j \in Joints |->
                             IF j < Len(msg) THEN RAD_TO_COUNT(msg[j + 1])
                             ELSE joint_commands_[j]]
    /\ \E harm \in (IF BeyondEnd(msg) = { } THEN { FALSE } ELSE BOOLEAN) :
          cmd_oob' = [idx |-> BeyondEnd(msg), harm |-> harm]
    /\ UNCHANGED gc_vars
    /\ UNCHANGED << joint_no_, joints_OP_, joints_op_enabled_, driveState,
                    ctrl_word, status_word, target_pos, actual_pos,
                    joint_states_enc_counts_, joint_ec_states, counter_, stamp_,
                    clock, startup_pos, bus_calls, tp_writes, cw_writes, log_,
                    joint_states_, published, timers_, init_calls >>

(***************************************************************************)
(* The constructor and init_ / configure_pdos_: failAt is the index of the *)
(* startup call that fails, 0 when none does.                              *)
(***************************************************************************)
JointSteps(i) == << <<"ecrt_master_slave_config", i>>, <<"ecrt_slave_config_pdos", i>> >>

RECURSIVE AllJointSteps(_)
AllJointSteps(i) ==
    IF i = NUM_JOINTS THEN << >> ELSE JointSteps(i) \o AllJointSteps(i + 1)

StartupSteps ==
    << <<"ecrt_request_master", 0>>, <<"ecrt_master_create_domain", 0>> >>
    \o AllJointSteps(0)
    \o << <<"ecrt_domain_reg_pdo_entry_list", 0>>, <<"ecrt_master_activate", 0>>,
          <<"ecrt_domain_data", 0>> >>

\* mutant: the timers are created whether or not init_ succeeded
CreatesTimersAlways(failAt) == TRUE

\* the constructor returns before creating the timers when init_ failed
CreatesTimers(failAt) == failAt = 0

ZeroErrInterface(failAt) ==
    /\ init_calls = << >>
    /\ init_calls' = IF failAt = 0 THEN StartupSteps
                     ELSE SubSeq(StartupSteps, 1, failAt)
    /\ timers_' = CreatesTimers(failAt)
    /\ stamp_' = IF CreatesTimers(failAt) THEN clock ELSE stamp_
    /\ joint_states_enc_counts_' = [j \in Joints |-> 0]
    /\ joint_commands_' = [j \in Joints |-> 0]
    /\ joint_states_' = [j \in Joints |-> COUNT_TO_RAD(0)]
    /\ UNCHANGED gc_vars
    /\ UNCHANGED << joint_no_, joints_OP_, joints_op_enabled_, driveState,
                    ctrl_word, status_word, target_pos, actual_pos,
                    joint_ec_states, counter_, clock, startup_pos, bus_calls,
                    tp_writes, cw_writes, log_, published, cmd_oob >>

(***************************************************************************)
(* The wall clock advances by one second.                                  *)
(***************************************************************************)
Tick ==
    /\ clock < MaxTime
    /\ clock' = clock + 1
    /\ UNCHANGED gc_vars
    /\ UNCHANGED << joint_no_, joints_OP_, joints_op_enabled_, driveState,
                    ctrl_word, status_word, target_pos, actual_pos,
                    joint_states_enc_counts_, joint_commands_, joint_ec_states,
                    counter_, stamp_, startup_pos, bus_calls, tp_writes,
                    cw_writes, log_, joint_states_, published, cmd_oob,
                    timers_, init_calls >>

(***************************************************************************)
(* Input sets.                                                             *)
(***************************************************************************)
\* one status word per row of the table, and one that matches no row
StatusWords == { 0, 64, 33, 35, 39, 7, 15, 8, 2 }

\* encoder positions, in counts
Positions == { 500, 1000 }

\* message positions, in radians
CmdRads == { 1 }

(***************************************************************************)
(* The bring-up sequence of status words, and the monitor that follows it  *)
(* on the joint under the cursor: SeqNext is the length of the prefix of   *)
(* BringUpSeq that the status words fed on consecutive cycles end with.    *)
(***************************************************************************)
BringUpSeq == << 0, 64, 33, 35, 39 >>

BringUpStates == << "NOT_READY", "SWITCH_ON_DISABLED", "READY", "SWITCHED_ON",
                    "OPERATION_ENABLED" >>

SeqNext(idx, s) ==
    IF idx < Len(BringUpSeq) /\ s = BringUpSeq[idx + 1] THEN idx + 1
    ELSE IF s = BringUpSeq[1] THEN 1
    ELSE 0

(***************************************************************************)
(* The GameController node (servo_game_controller).  A Joy message is the  *)
(* set of its controls that are active: the buttons that read PRESSED and  *)
(* the axes that read non-zero.  Speeds are counted in their steps: the    *)
(* jog speed in tenths of rad/s, the Cartesian step in hundredths.         *)
(***************************************************************************)
Buttons == { "GUIDE", "MENU", "DPAD_UP", "DPAD_DOWN", "DPAD_LEFT", "DPAD_RIGHT",
             "RIGHT_BUMPER", "LEFT_BUMPER" }

Axes == { "RIGHT_TRIGGER", "LEFT_TRIGGER", "LEFT_STICK_X", "LEFT_STICK_Y" }

\* most controls active in one Joy message
MaxPressed == 2

\* joy_cb_ runs explored per behaviour of SpecJoy
MaxJoyMsgs == 5

JoyMsgs == { m \in SUBSET (Buttons \cup Axes) : Cardinality(m) <= MaxPressed }

CommandTypes == { "JOINT_JOG", "TWIST", "POSE" }

\* the state after the constructor; dpad_toggle_ has no initialiser, dpad is
\* the value it happens to hold
GameControllerWith(dpad) ==
    /\ joint_vel_cmd_ = 1
    /\ cartesian_step_size_ = 10
    /\ enabled_ = FALSE
    /\ enable_cmd_toggle_ = TRUE
    /\ servo_cmd_toggle_ = TRUE
    /\ dpad_toggle_ = dpad
    /\ joint_num_ = 0
    /\ command_type = "JOINT_JOG"
    /\ joy_pub = << >>
    /\ joy_ = { }

GameController == \E dpad \in BOOLEAN : GameControllerWith(dpad)

\* the command type that MENU switches to
TypeAfter(t) ==
    CASE t = "JOINT_JOG" -> "TWIST"
      [] t = "TWIST"     -> "POSE"
      [] t = "POSE"      -> "JOINT_JOG"

\* mutant: the disabled controller still handles the other buttons
IgnoresInputNever(en) == FALSE

\* the test "ignore other buttons if disabled"
IgnoresInput(en) == ~en

\* the test of the GUIDE branch
GuideToggles(m, armed) == "GUIDE" \in m /\ armed

\* the DPAD flag after the re-arm test
DpadArmed(m) ==
    IF m \cap { "DPAD_UP", "DPAD_DOWN", "DPAD_LEFT", "DPAD_RIGHT" } = { }
       /\ ~dpad_toggle_
    THEN TRUE ELSE dpad_toggle_

\* the JointJog messages published by the bumper and the trigger tests
JointJogs(m) ==
    (IF "RIGHT_BUMPER" \in m \/ "LEFT_BUMPER" \in m THEN << "JointJog" >> ELSE << >>)
    \o (IF "RIGHT_TRIGGER" \in m \/ "LEFT_TRIGGER" \in m THEN << "JointJog" >> ELSE << >>)

\* the Twist branch publishes twist_msg by std::move: a second use in the
\* same call dereferences the emptied pointer, after which the call either
\* ends the process ("crash") or goes on to publish
TwistSecond(m) ==
    "RIGHT_BUMPER" \in m \/ "LEFT_BUMPER" \in m
    \/ "LEFT_STICK_X" \in m \/ "LEFT_STICK_Y" \in m

Twists(m) ==
    IF "RIGHT_TRIGGER" \in m \/ "LEFT_TRIGGER" \in m
    THEN IF TwistSecond(m)
         THEN { << "Twist", "crash" >>, << "Twist", "Twist" >> }
         ELSE { << "Twist" >> }
    ELSE IF TwistSecond(m) THEN { << "Twist" >> } ELSE { << >> }

Poses(m) ==
    IF "LEFT_STICK_X" \in m \/ "LEFT_STICK_Y" \in m THEN << "Pose" >> ELSE << >>

joy_cb_(m) ==
    /\ "crash" \notin { joy_pub[i] : i \in DOMAIN joy_pub }
    /\ joy_' = m
    /\ IF GuideToggles(m, enable_cmd_toggle_)
       THEN /\ enabled_' = ~enabled_
            /\ joy_pub' = << "JoyFeedback" >>
            /\ enable_cmd_toggle_' = FALSE
            /\ UNCHANGED << servo_cmd_toggle_, dpad_toggle_, command_type,
                            joint_num_, joint_vel_cmd_, cartesian_step_size_ >>
       ELSE IF "GUIDE" \notin m /\ ~enable_cmd_toggle_
       THEN /\ enable_cmd_toggle_' = TRUE
            /\ joy_pub' = << >>
            /\ UNCHANGED << enabled_, servo_cmd_toggle_, dpad_toggle_, command_type,
                            joint_num_, joint_vel_cmd_, cartesian_step_size_ >>
       ELSE IF IgnoresInput(enabled_)
       THEN /\ joy_pub' = << >>
            /\ UNCHANGED << enabled_, enable_cmd_toggle_, servo_cmd_toggle_,
                            dpad_toggle_, command_type, joint_num_,
                            joint_vel_cmd_, cartesian_step_size_ >>
       ELSE IF "MENU" \in m /\ servo_cmd_toggle_
       THEN /\ command_type' = TypeAfter(command_type)
            /\ servo_cmd_toggle_' = FALSE
            /\ joy_pub' = << "switch_command_type" >>
            /\ UNCHANGED << enabled_, enable_cmd_toggle_, dpad_toggle_,
                            joint_num_, joint_vel_cmd_, cartesian_step_size_ >>
       ELSE IF "MENU" \notin m /\ ~servo_cmd_toggle_
       THEN /\ servo_cmd_toggle_' = TRUE
            /\ joy_pub' = << >>
            /\ UNCHANGED << enabled_, enable_cmd_toggle_, dpad_toggle_,
                            command_type, joint_num_, joint_vel_cmd_,
                            cartesian_step_size_ >>
       ELSE IF "DPAD_UP" \in m /\ dpad_toggle_
       THEN /\ IF command_type = "JOINT_JOG"
               THEN /\ joint_vel_cmd_' = joint_vel_cmd_ + 1
                    /\ UNCHANGED cartesian_step_size_
               ELSE /\ cartesian_step_size_' = cartesian_step_size_ + 1
                    /\ UNCHANGED joint_vel_cmd_
            /\ dpad_toggle_' = FALSE
            /\ joy_pub' = << >>
            /\ UNCHANGED << enabled_, enable_cmd_toggle_, servo_cmd_toggle_,
                            command_type, joint_num_ >>
       ELSE IF "DPAD_DOWN" \in m /\ dpad_toggle_
       THEN /\ IF command_type = "JOINT_JOG"
               THEN /\ joint_vel_cmd_' = IF joint_vel_cmd_ - 1 < 0 THEN 1
                                         ELSE joint_vel_cmd_ - 1
                    /\ UNCHANGED cartesian_step_size_
               ELSE /\ cartesian_step_size_' = IF cartesian_step_size_ - 1 < 0 THEN 1
                                               ELSE cartesian_step_size_ - 1
                    /\ UNCHANGED joint_vel_cmd_
            /\ dpad_toggle_' = FALSE
            /\ joy_pub' = << >>
            /\ UNCHANGED << enabled_, enable_cmd_toggle_, servo_cmd_toggle_,
                            command_type, joint_num_ >>
       ELSE /\ UNCHANGED << enabled_, enable_cmd_toggle_, servo_cmd_toggle_,
                            command_type, joint_vel_cmd_, cartesian_step_size_ >>
            /\ IF command_type = "JOINT_JOG" /\ "DPAD_RIGHT" \in m /\ DpadArmed(m)
               THEN /\ joint_num_' = IF joint_num_ + 1 > NUM_JOINTS - 1 THEN 0
                                     ELSE joint_num_ + 1
                    /\ dpad_toggle_' = FALSE
                    /\ joy_pub' = << >>
               ELSE IF command_type = "JOINT_JOG" /\ "DPAD_LEFT" \in m /\ DpadArmed(m)
               THEN /\ joint_num_' = IF joint_num_ - 1 < 0 THEN NUM_JOINTS - 1
                                     ELSE joint_num_ - 1
                    /\ dpad_toggle_' = FALSE
                    /\ joy_pub' = << >>
               ELSE /\ dpad_toggle_' = DpadArmed(m)
                    /\ UNCHANGED joint_num_
                    /\ joy_pub' \in CASE command_type = "JOINT_JOG" -> { JointJogs(m) }
                                      [] command_type = "TWIST"     -> Twists(m)
                                      [] command_type = "POSE"      -> { Poses(m) }

(***************************************************************************)
(* The state before the constructor runs.  The drives stand at 1000        *)
(* counts; the domain image is zeroed.                                     *)
(***************************************************************************)
ArmInit ==
    /\ joint_no_ = 0
    /\ joints_OP_ = FALSE
    /\ joints_op_enabled_ = FALSE
    /\ driveState = [j \in Joints |-> "NOT_READY"]
    /\ ctrl_word = [j \in Joints |-> 0]
    /\ status_word = [j \in Joints |-> 0]
    /\ target_pos = [j \in Joints |-> 0]
    /\ actual_pos = [j \in Joints |-> 0]
    /\ joint_states_enc_counts_ = [j \in Joints |-> 0]
    /\ joint_commands_ = [j \in Joints |-> 0]
    /\ joint_ec_states = [j \in Joints |-> FALSE]
    /\ counter_ = 0
    /\ stamp_ = 0
    /\ clock = 0
    /\ startup_pos = [j \in Joints |-> 1000]
    /\ bus_calls = << >>
    /\ tp_writes = << >>
    /\ cw_writes = << >>
    /\ log_ = << >>
    /\ joint_states_ = [j \in Joints |-> COUNT_TO_RAD(0)]
    /\ published = FALSE
    /\ cmd_oob = NoOob
    /\ timers_ = FALSE
    /\ init_calls = << >>
    /\ cycles = 0
    /\ commanded = FALSE
    /\ stalls = 0
    /\ seq_idx = 0
    /\ link_op = [j \in Joints |-> joints_OP_]

\* the specifications of the arm node run no joy_cb_: they start from one
\* value of the GameController's dpad_toggle_
Init == ArmInit /\ GameControllerWith(TRUE)

Construct ==
    /\ ZeroErrInterface(0)
    /\ UNCHANGED << cycles, commanded, stalls, seq_idx, link_op >>

\* the poll of the gate finds the link of the joint under the cursor
\* operational or not; the state machine does not poll
Polled(op) ==
    link_op' = IF joints_OP_ THEN link_op ELSE [link_op EXCEPT ![joint_no_] = op]

(***************************************************************************)
(* Spec: bring-up and steady state of the whole arm.  Every slave is       *)
(* operational when polled and the arm stands still; the status word of    *)
(* the joint under the cursor is arbitrary, with at most MaxStalls cycles  *)
(* in which it is not OPERATION_ENABLED.                                   *)
(***************************************************************************)
DriveCycle ==
    /\ IF joints_OP_
       THEN \E s \in StatusWords :
               /\ StatusRow(s) # "OPERATION_ENABLED" => stalls < MaxStalls
               /\ cyclic_pdo_loop_([status_word EXCEPT ![joint_no_] = s],
                                   startup_pos, TRUE)
               /\ stalls' = IF StatusRow(s) # "OPERATION_ENABLED"
                            THEN stalls + 1 ELSE stalls
       ELSE /\ cyclic_pdo_loop_(status_word, actual_pos, TRUE)
            /\ UNCHANGED stalls
    /\ Polled(TRUE)
    /\ UNCHANGED << cycles, commanded, seq_idx >>

Command ==
    /\ commanded' = TRUE
    /\ \E r \in CmdRads : arm_cmd_cb_([i \in 1 .. NUM_JOINTS |-> r])
    /\ UNCHANGED << cycles, stalls, seq_idx, link_op >>

Next == Construct \/ DriveCycle \/ Command

Spec == Init /\ [][Next]_vars

(***************************************************************************)
(* SpecJoint: bring-up of the first joint.  Every slave is operational     *)
(* when polled; status word and position of joint 0 are arbitrary in each  *)
(* of MaxJointCycles cycles of the state machine.                          *)
(***************************************************************************)
JointCycle ==
    /\ IF joints_OP_
       THEN /\ joint_no_ = 0
            /\ ~joints_op_enabled_
            /\ cycles < MaxJointCycles
            /\ cycles' = cycles + 1
            /\ \E s \in StatusWords, p \in Positions :
                  /\ cyclic_pdo_loop_([status_word EXCEPT ![joint_no_] = s],
                                      [actual_pos EXCEPT ![joint_no_] = p], TRUE)
                  /\ seq_idx' = SeqNext(seq_idx, s)
       ELSE /\ cyclic_pdo_loop_(status_word, actual_pos, TRUE)
            /\ UNCHANGED << cycles, seq_idx >>
    /\ Polled(TRUE)
    /\ UNCHANGED << commanded, stalls >>

NextJoint == Construct \/ JointCycle

SpecJoint == Init /\ [][NextJoint]_vars

(***************************************************************************)
(* SpecGate: the operational gate and its timeout.  The polled slave is    *)
(* operational or not, the clock advances between cycles; once the gate is *)
(* ready every drive reports OPERATION_ENABLED.                            *)
(***************************************************************************)
GateCycle ==
    /\ cycles < MaxCycles
    /\ cycles' = cycles + 1
    /\ IF joints_OP_
       THEN /\ cyclic_pdo_loop_([status_word EXCEPT ![joint_no_] = 39], startup_pos, TRUE)
            /\ Polled(TRUE)
       ELSE \E op \in BOOLEAN : /\ cyclic_pdo_loop_(status_word, actual_pos, op)
                                /\ Polled(op)
    /\ UNCHANGED << commanded, stalls, seq_idx >>

ClockTick == Tick /\ UNCHANGED << cycles, commanded, stalls, seq_idx, link_op >>

NextGate == Construct \/ ClockTick \/ GateCycle

SpecGate == Init /\ [][NextGate]_vars

(***************************************************************************)
(* SpecWord: one run of the state machine on arbitrary words.  The node    *)
(* has started and the gate is ready; the control word left in the domain  *)
(* for the joint under the cursor and the status word it reports range     *)
(* over the 16-bit words.                                                  *)
(***************************************************************************)
\* control words tried with every status word of StatusWords
CtrlSweep == (0 .. 255) \cup { 32768, 65280 }

\* the control word tried with every 16-bit status word
CtrlOnes == 65535

InitWord ==
    /\ GameControllerWith(TRUE)
    /\ joint_no_ \in { 0, NUM_JOINTS - 1 }
    /\ joints_OP_ = TRUE
    /\ joints_op_enabled_ = FALSE
    /\ \E d \in { "NOT_READY", "OPERATION_ENABLED" } :
          driveState = [j \in Joints |-> d]
    /\ \E c \in CtrlSweep \cup { CtrlOnes } :
          /\ ctrl_word = [j \in Joints |-> IF j = joint_no_ THEN c ELSE 0]
          /\ c = CtrlOnes => joint_no_ = 0 /\ driveState[0] = "NOT_READY"
    /\ status_word = [j \in Joints |-> 0]
    /\ target_pos = [j \in Joints |-> 0]
    /\ actual_pos = [j \in Joints |-> 0]
    /\ joint_states_enc_counts_ = [j \in Joints |-> 0]
    /\ joint_commands_ = [j \in Joints |-> 0]
    /\ joint_ec_states = [j \in Joints |-> TRUE]
    /\ counter_ = 0
    /\ stamp_ = 0
    /\ clock = 0
    /\ startup_pos = [j \in Joints |-> 1000]
    /\ bus_calls = << >>
    /\ tp_writes = << >>
    /\ cw_writes = << >>
    /\ log_ = << >>
    /\ joint_states_ = [j \in Joints |-> COUNT_TO_RAD(0)]
    /\ published = FALSE
    /\ cmd_oob = NoOob
    /\ timers_ = TRUE
    /\ init_calls = StartupSteps
    /\ cycles = 0
    /\ commanded = FALSE
    /\ stalls = 0
    /\ seq_idx = 0
    /\ link_op = [j \in Joints |-> joints_OP_]

WordCycle ==
    /\ cycles = 0
    /\ cycles' = 1
    /\ \E s \in (IF ctrl_word[joint_no_] = CtrlOnes THEN 0 .. (WORD - 1) ELSE StatusWords) :
          cyclic_pdo_loop_([status_word EXCEPT ![joint_no_] = s], startup_pos, TRUE)
    /\ Polled(TRUE)
    /\ UNCHANGED << commanded, stalls, seq_idx >>

SpecWord == InitWord /\ [][WordCycle]_vars

(***************************************************************************)
(* SpecStartup: startup with a failing step.  Any one of the startup calls *)
(* fails, or none; afterwards the executor runs whatever callbacks exist.  *)
(***************************************************************************)
Start ==
    /\ \E failAt \in 0 .. Len(StartupSteps) : ZeroErrInterface(failAt)
    /\ UNCHANGED << cycles, commanded, stalls, seq_idx, link_op >>

Publish ==
    joint_state_pub_ /\ UNCHANGED << cycles, commanded, stalls, seq_idx, link_op >>

NextStartup == Start \/ GateCycle \/ Publish \/ Command

SpecStartup == Init /\ [][NextStartup]_vars

(***************************************************************************)
(* SpecFault: faults in steady state.  Every slave is operational when     *)
(* polled and every drive reports OPERATION_ENABLED, except that in at     *)
(* most MaxFaults cycles some drive starts to report FAULT or              *)
(* FAULT_REACTION_ACTIVE; it reports that until it recovers.               *)
(***************************************************************************)
FaultWords == { 8, 15 }

\* the status words received when drive j reports s: a drive in fault stays
\* in fault, the others report OPERATION_ENABLED
FaultStatus(j, s) ==
    [k \in Joints |-> IF k = j THEN s
                      ELSE IF status_word[k] \in FaultWords THEN status_word[k]
                      ELSE 39]

FaultCycle ==
    /\ cycles < MaxFaultCycles
    /\ cycles' = cycles + 1
    /\ IF joints_OP_
       THEN \E j \in Joints, s \in FaultWords \cup { 39 } :
               LET starts == s \in FaultWords /\ status_word[j] \notin FaultWords
               IN  /\ starts => stalls < MaxFaults
                   /\ cyclic_pdo_loop_(FaultStatus(j, s), startup_pos, TRUE)
                   /\ stalls' = IF starts THEN stalls + 1 ELSE stalls
       ELSE /\ cyclic_pdo_loop_(status_word, actual_pos, TRUE)
            /\ UNCHANGED stalls
    /\ Polled(TRUE)
    /\ UNCHANGED << commanded, seq_idx >>

NextFault == Construct \/ FaultCycle

SpecFault == Init /\ [][NextFault]_vars

(***************************************************************************)
(* SpecConvert: the unit converter.  The node has started; the drives of   *)
(* joints 0 and 1 stand at adjacent counts, anywhere within MaxTurns turns *)
(* of zero or at the ends of the 32-bit range.  One cycle reads the        *)
(* positions into the cache and the publisher converts them.               *)
(***************************************************************************)
Counts ==
    ((-(MaxTurns * MAX_COUNT) - 1) .. (MaxTurns * MAX_COUNT + 1))
    \cup { INT32_MIN, INT32_MIN + 1, INT32_MAX - 1, INT32_MAX }

InitConvert ==
    /\ GameControllerWith(TRUE)
    /\ joint_no_ = 0
    /\ joints_OP_ = FALSE
    /\ joints_op_enabled_ = FALSE
    /\ driveState = [j \in Joints |-> "NOT_READY"]
    /\ ctrl_word = [j \in Joints |-> 0]
    /\ status_word = [j \in Joints |-> 0]
    /\ target_pos = [j \in Joints |-> 0]
    /\ actual_pos = [j \in Joints |-> 0]
    /\ joint_states_enc_counts_ = [j \in Joints |-> 0]
    /\ joint_commands_ = [j \in Joints |-> 0]
    /\ joint_ec_states = [j \in Joints |-> FALSE]
    /\ counter_ = 0
    /\ stamp_ = 0
    /\ clock = 0
    /\ \E c \in Counts :
          startup_pos = [j \in Joints |->
                           IF j = 0 THEN c
                           ELSE IF j = 1 /\ c < INT32_MAX THEN c + 1
                           ELSE IF j = 1 THEN c
                           ELSE 0]
    /\ bus_calls = << >>
    /\ tp_writes = << >>
    /\ cw_writes = << >>
    /\ log_ = << >>
    /\ joint_states_ = [j \in Joints |-> COUNT_TO_RAD(0)]
    /\ published = FALSE
    /\ cmd_oob = NoOob
    /\ timers_ = TRUE
    /\ init_calls = StartupSteps
    /\ cycles = 0
    /\ commanded = FALSE
    /\ stalls = 0
    /\ seq_idx = 0
    /\ link_op = [j \in Joints |-> joints_OP_]

ConvertCycle ==
    /\ cycles = 0
    /\ cycles' = 1
    /\ cyclic_pdo_loop_(status_word, startup_pos, FALSE)
    /\ Polled(FALSE)
    /\ UNCHANGED << commanded, stalls, seq_idx >>

NextConvert == ConvertCycle \/ Publish

SpecConvert == InitConvert /\ [][NextConvert]_vars

(***************************************************************************)
(* SpecLoop: the three callbacks interleaved.  Every slave is operational  *)
(* when polled and every drive reports OPERATION_ENABLED; each cycle       *)
(* receives a new set of positions and each message carries a new set of   *)
(* commands, different for every joint.                                    *)
(***************************************************************************)
LoopRads == { 1, 2 }

LoopMsg(r) == [i \in 1 .. NUM_JOINTS |-> r + i]

LoopPositions(p) == [j \in Joints |-> p + j]

LoopCycle ==
    /\ cycles < MaxLoopCycles
    /\ cycles' = cycles + 1
    /\ \E p \in Positions :
          cyclic_pdo_loop_(IF joints_OP_ THEN [status_word EXCEPT ![joint_no_] = 39]
                           ELSE status_word,
                           LoopPositions(p), TRUE)
    /\ Polled(TRUE)
    /\ UNCHANGED << commanded, stalls, seq_idx >>

LoopCommand ==
    /\ commanded' = TRUE
    /\ \E r \in LoopRads : arm_cmd_cb_(LoopMsg(r))
    /\ UNCHANGED << cycles, stalls, seq_idx, link_op >>

NextLoop == Construct \/ LoopCycle \/ LoopCommand \/ Publish

SpecLoop == Init /\ [][NextLoop]_vars

(***************************************************************************)
(* SpecCommand: command messages of any length up to MaxMsgLen.            *)
(***************************************************************************)
CommandAny ==
    /\ commanded' = TRUE
    /\ \E n \in 0 .. MaxMsgLen, r \in LoopRads : arm_cmd_cb_([i \in 1 .. n |-> r])
    /\ UNCHANGED << cycles, stalls, seq_idx, link_op >>

NextCommand == Construct \/ CommandAny

SpecCommand == Init /\ [][NextCommand]_vars

(***************************************************************************)
(* SpecLink: the gate on links that come and go.  The link of the joint    *)
(* that the gate waits for becomes operational at some time; at most       *)
(* MaxDrops times a link leaves the operational state again.  The poll of  *)
(* the gate reads the link of the joint under the cursor.                  *)
(***************************************************************************)
LinkUp ==
    /\ timers_
    /\ ~joints_OP_
    /\ ~link_op[joint_no_]
    /\ link_op' = [link_op EXCEPT ![joint_no_] = TRUE]
    /\ UNCHANGED gc_vars
    /\ UNCHANGED << joint_no_, joints_OP_, joints_op_enabled_, driveState,
                    ctrl_word, status_word, target_pos, actual_pos,
                    joint_states_enc_counts_, joint_commands_, joint_ec_states,
                    counter_, stamp_, clock, startup_pos, bus_calls, tp_writes,
                    cw_writes, log_, joint_states_, published, cmd_oob, timers_,
                    init_calls, cycles, commanded, stalls, seq_idx >>

LinkDrop ==
    /\ stalls < MaxDrops
    /\ stalls' = stalls + 1
    /\ \E j \in Joints :
          /\ link_op[j]
          /\ link_op' = [link_op EXCEPT ![j] = FALSE]
    /\ UNCHANGED gc_vars
    /\ UNCHANGED << joint_no_, joints_OP_, joints_op_enabled_, driveState,
                    ctrl_word, status_word, target_pos, actual_pos,
                    joint_states_enc_counts_, joint_commands_, joint_ec_states,
                    counter_, stamp_, clock, startup_pos, bus_calls, tp_writes,
                    cw_writes, log_, joint_states_, published, cmd_oob, timers_,
                    init_calls, cycles, commanded, seq_idx >>

LinkCycle ==
    /\ cycles < MaxLinkCycles
    /\ cycles' = cycles + 1
    /\ cyclic_pdo_loop_(IF joints_OP_ THEN [status_word EXCEPT ![joint_no_] = 39]
                        ELSE status_word,
                        startup_pos, link_op[joint_no_])
    /\ UNCHANGED << commanded, stalls, seq_idx, link_op >>

NextLink == Construct \/ ClockTick \/ LinkUp \/ LinkDrop \/ LinkCycle

SpecLink == Init /\ [][NextLink]_vars

(***************************************************************************)
(* SpecJoy: the GameController node on Joy messages with at most           *)
(* MaxPressed active controls, from either value of dpad_toggle_.          *)
(***************************************************************************)
InitJoy == ArmInit /\ GameController

JoyStep ==
    /\ cycles < MaxJoyMsgs
    /\ cycles' = cycles + 1
    /\ \E m \in JoyMsgs : joy_cb_(m)
    /\ UNCHANGED << arm_vars, commanded, stalls, seq_idx, link_op >>

NextJoy == JoyStep

SpecJoy == InitJoy /\ [][NextJoy]_vars

(***************************************************************************)
(* SpecLive: bring-up against drives that follow the device profile.  A    *)
(* drive reads its control word from the domain and moves to the next      *)
(* state of the profile: NOT_READY to SWITCH_ON_DISABLED by itself, on the *)
(* shutdown word to READY, on the switch-on word to SWITCHED_ON, on the    *)
(* enable-operation word to OPERATION_ENABLED, from FAULT on the           *)
(* fault-reset bit to SWITCH_ON_DISABLED, from FAULT_REACTION_ACTIVE to    *)
(* FAULT by itself.  A cycle finds that the drives have reacted since the  *)
(* last one, or that they have not; at most MaxDisturb times the link     *)
(* that the gate waits for drops again or the drive under the cursor of    *)
(* the state machine reports a fault.  Fairness: the node is constructed,  *)
(* the link that the gate waits for comes up, and cycles in which the      *)
(* drives have reacted keep coming.                                        *)
(***************************************************************************)
MaxDisturb == 1

\* seconds of wall clock from which SpecLive lets no further timeout pass
MaxLiveTime == 10

DriveReact(s, c) ==
    LET low   == s % 16
        ready == (s \div 32) % 2 = 1 /\ (s \div 64) % 2 = 0
        reset == (c \div 128) % 2 = 1
    IN  CASE low = 0 /\ (s \div 64) % 2 = 0 -> 64
          [] low = 0 /\ (s \div 64) % 2 = 1 /\ c % 8 = 6 /\ ~reset -> 33
          [] low = 1 /\ ready /\ c % 16 = 7 /\ ~reset -> 35
          [] low \in { 1, 3 } /\ ready /\ c % 16 = 15 /\ ~reset -> 39
          [] low = 8 /\ (s \div 64) % 2 = 0 /\ reset -> 64
          [] low = 15 /\ (s \div 64) % 2 = 0 -> 8
          [] OTHER -> s

Reacted == [j \in Joints |-> DriveReact(status_word[j], ctrl_word[j])]

LiveReactCycle ==
    /\ \E sw \in { Reacted } : cyclic_pdo_loop_(sw, startup_pos, link_op[joint_no_])
    /\ UNCHANGED << cycles, commanded, stalls, seq_idx, link_op >>

LiveIdleCycle ==
    /\ cyclic_pdo_loop_(status_word, startup_pos, link_op[joint_no_])
    /\ UNCHANGED << cycles, commanded, stalls, seq_idx, link_op >>

LiveFaultCycle ==
    /\ joints_OP_
    /\ stalls < MaxDisturb
    /\ stalls' = stalls + 1
    /\ \E f \in FaultWords :
          cyclic_pdo_loop_([status_word EXCEPT ![joint_no_] = f], startup_pos,
                           link_op[joint_no_])
    /\ UNCHANGED << cycles, commanded, seq_idx, link_op >>

LiveLinkDrop ==
    /\ ~joints_OP_
    /\ stalls < MaxDisturb
    /\ stalls' = stalls + 1
    /\ link_op[joint_no_]
    /\ link_op' = [link_op EXCEPT ![joint_no_] = FALSE]
    /\ UNCHANGED gc_vars
    /\ UNCHANGED << arm_vars, cycles, commanded, seq_idx >>

\* a timeout's worth of wall clock passes while the gate waits
LiveTimeout ==
    /\ timers_
    /\ ~joints_OP_
    /\ clock < MaxLiveTime
    /\ clock' = clock + OP_TIMEOUT
    /\ UNCHANGED gc_vars
    /\ UNCHANGED << joint_no_, joints_OP_, joints_op_enabled_, driveState,
                    ctrl_word, status_word, target_pos, actual_pos,
                    joint_states_enc_counts_, joint_commands_, joint_ec_states,
                    counter_, stamp_, startup_pos, bus_calls, tp_writes,
                    cw_writes, log_, joint_states_, published, cmd_oob,
                    timers_, init_calls, cycles, commanded, stalls, seq_idx,
                    link_op >>

NextLive ==
    Construct \/ LiveTimeout \/ LinkUp \/ LiveLinkDrop \/ LiveReactCycle
    \/ LiveIdleCycle \/ LiveFaultCycle

SpecLive ==
    /\ Init
    /\ [][NextLive]_vars
    /\ WF_vars(Construct)
    /\ WF_vars(LinkUp)
    /\ WF_vars(LiveReactCycle)

(***************************************************************************)
(* A step is a run of cyclic_pdo_loop_: on the inputs that the state after *)
(* the step records.                                                       *)
(***************************************************************************)
CycleStep == cyclic_pdo_loop_(status_word', actual_pos', joint_ec_states'[joint_no_])

\* the elements of a sequence
Range(f) == { f[i] : i \in DOMAIN f }

(***************************************************************************)
(* C1: once all six joints have been reported OPERATION_ENABLED and every  *)
(* status word keeps reading OPERATION_ENABLED, every cycle writes the     *)
(* TargetPosition of every joint from JointCommand.                        *)
(***************************************************************************)
AllReadEnabled(sw) == \A j \in Joints : StatusRow(sw[j]) = "OPERATION_ENABLED"

C1_SteadyStateWritesEveryCycle ==
    [][ (CycleStep /\ joints_OP_ /\ joints_op_enabled_ /\ AllReadEnabled(status_word'))
        => /\ \A j \in Joints : <<j, "cmd">> \in Range(tp_writes')
           /\ target_pos' = joint_commands_ ]_vars

(***************************************************************************)
(* C2: whenever TargetPosition of joint j is written, by the snap of       *)
(* state_transition_ or by the JointCommand loop, the recorded DriveState  *)
(* of joint j is SWITCHED_ON or OPERATION_ENABLED.                         *)
(***************************************************************************)
C2_TargetWrittenOnlyWhenSwitchedOn ==
    \A i \in DOMAIN tp_writes :
        driveState[tp_writes[i][1]] \in { "SWITCHED_ON", "OPERATION_ENABLED" }

\* the targets are written from JointCommand in a run in which joint 0 had
\* its target snapped at SWITCHED_ON
C2_Witness ==
    /\ <<NUM_JOINTS - 1, "cmd">> \in Range(tp_writes)
    /\ ctrl_word[0] = 15

(***************************************************************************)
(* C3: after a successful startup and before any command has been          *)
(* received, JointCommand of every joint equals the position of the joint  *)
(* at startup, so the first targets written from JointCommand equal the    *)
(* startup positions.                                                      *)
(***************************************************************************)
C3_CommandSeededFromStartup ==
    (timers_ /\ ~commanded) =>
        \A j \in Joints :
            /\ joint_commands_[j] = startup_pos[j]
            /\ <<j, "cmd">> \in Range(tp_writes) => target_pos[j] = startup_pos[j]

(***************************************************************************)
(* C4: feeding the joint under the cursor the status words 0x00, 0x40,     *)
(* 0x21, 0x23, 0x27 on consecutive cycles records NOT_READY,               *)
(* SWITCH_ON_DISABLED, READY, SWITCHED_ON, OPERATION_ENABLED, one state    *)
(* per cycle, whatever was recorded before.                                *)
(***************************************************************************)
\* the joint that the last run of state_transition_ addressed
LastAddressed ==
    IF seq_idx = Len(BringUpSeq) THEN (joint_no_ + NUM_JOINTS - 1) % NUM_JOINTS
    ELSE joint_no_

C4_BringUpSequenceRecorded ==
    seq_idx > 0 => driveState[LastAddressed] = BringUpStates[seq_idx]

\* the whole sequence was fed to joint 0 after one cycle with another status
C4_Witness ==
    /\ seq_idx = Len(BringUpSeq)
    /\ cycles = Len(BringUpSeq) + 1
    /\ driveState[0] = "OPERATION_ENABLED"
    /\ ctrl_word[0] = 15

(***************************************************************************)
(* C5: for every 16-bit status word s and every prior 16-bit control word  *)
(* c of the joint under the cursor, the control word after one             *)
(* state_transition_ step is that of the table row matched by s.  The      *)
(* table is stated here on the bit fields of s and c: the masks 0x4F and   *)
(* 0x6F select bits 0-3 and 6, and bits 0-3, 5 and 6.                      *)
(***************************************************************************)
Bit(x, i) == (x \div (2 ^ i)) % 2

TableControlWord(s, c) ==
    LET low == s % 16
        b5  == Bit(s, 5)
        b6  == Bit(s, 6)
    IN  IF low = 0 /\ b6 = 1 THEN 6 + 8 * ((c \div 8) % 16)
        ELSE IF low = 1 /\ b5 = 1 /\ b6 = 0 THEN 7 + 16 * ((c \div 16) % 8)
        ELSE IF low = 3 /\ b5 = 1 /\ b6 = 0 THEN 15 + 16 * ((c \div 16) % 8)
        ELSE IF low = 7 /\ b5 = 0 /\ b6 = 0 THEN 15 + 16 * ((c \div 16) % 8)
        ELSE IF low = 15 /\ b6 = 0 THEN 128
        ELSE IF low = 8 /\ b6 = 0 THEN 128 + (c % 128)
        ELSE c

C5_ControlWordFollowsTable ==
    [][ (CycleStep /\ joints_OP_)
        => ctrl_word'[joint_no_] =
              TableControlWord(status_word'[joint_no_], ctrl_word[joint_no_]) ]_vars

\* a READY status word with high bits set met the control word 0xFFFF
C5_Witness ==
    /\ cycles = 1
    /\ status_word[0] = 4096 + 256 + 128 + 33
    /\ ctrl_word[0] = 119
    /\ driveState[0] = "READY"

(***************************************************************************)
(* C6: in the cycle in which the recorded DriveState of the joint under    *)
(* the cursor changes to SWITCHED_ON, TargetPosition equals ActualPosition *)
(* at the end of the cycle: it is overwritten when the two differed and    *)
(* left alone when they were equal.                                        *)
(***************************************************************************)
C6_SnapOnSwitchedOnEdge ==
    [][ (CycleStep /\ joints_OP_ /\ driveState[joint_no_] # "SWITCHED_ON"
           /\ driveState'[joint_no_] = "SWITCHED_ON")
        => /\ target_pos'[joint_no_] = actual_pos'[joint_no_]
           /\ tp_writes' = IF actual_pos'[joint_no_] # target_pos[joint_no_]
                           THEN << <<joint_no_, "snap">> >> ELSE << >> ]_vars

\* the third cycle of joint 0 is an edge into SWITCHED_ON that snaps the
\* target to Actual = 1000
C6_Witness ==
    /\ driveState[0] = "SWITCHED_ON"
    /\ tp_writes = << <<0, "snap">> >>
    /\ target_pos[0] = 1000
    /\ cycles = 3
    /\ ctrl_word[0] = 15
    /\ seq_idx = 0

(***************************************************************************)
(* C7: starting with the cursor at 0, if joint k is operational when       *)
(* polled in cycle k+1 for k = 0..5, check_slave_config_states_ returns    *)
(* false in cycles 1..5 and true in cycle 6, and the cursor is 0 after the *)
(* sixth call.  cycles = joint_no_ holds before cycle k+1 exactly when     *)
(* every earlier poll found its joint operational.                         *)
(***************************************************************************)
C7_GateReadyOnSixthCycle ==
    [][ (CycleStep /\ ~joints_OP_ /\ cycles = joint_no_ /\ joint_ec_states'[joint_no_])
        => /\ joints_OP_' = (cycles = 5)
           /\ joint_no_' = (cycles + 1) % 6 ]_vars

C7_Witness ==
    /\ cycles = 6
    /\ joints_OP_
    /\ joint_no_ = 0
    /\ \A j \in Joints : joint_ec_states[j]

(***************************************************************************)
(* C8: while the gate is running each call of check_slave_config_states_   *)
(* leaves the cursor unchanged or increases it by one, except for the wrap *)
(* to 0, which happens exactly in the call in which joint 5 is confirmed   *)
(* operational; that call is the only one that returns ready.              *)
(***************************************************************************)
C8_GateCursorMonotone ==
    [][ (CycleStep /\ ~joints_OP_)
        => LET last == joint_no_ = 5 /\ joint_ec_states'[5]
           IN  /\ joints_OP_' = last
               /\ IF last THEN joint_no_' = 0
                  ELSE joint_no_' \in { joint_no_, joint_no_ + 1 }
               /\ joint_no_' \in Joints ]_vars

\* the gate became ready after a poll that found a joint not operational
C8_Witness ==
    /\ cycles = 7
    /\ joints_OP_
    /\ joint_no_ = 0
    /\ driveState[0] = "NOT_READY"

(***************************************************************************)
(* C9: while the gate is running, the master is reset in a cycle exactly   *)
(* when 10 seconds or more have passed since activation or since the       *)
(* previous reset, and the reset restarts the window; this repeats without *)
(* end.                                                                    *)
(***************************************************************************)
C9_ResetOncePerWindow ==
    [][ (CycleStep /\ ~joints_OP_)
        => /\ ("reset" \in Range(bus_calls')) = (clock - stamp_ >= 10)
           /\ stamp_' = IF clock - stamp_ >= 10 THEN clock ELSE stamp_ ]_vars

\* the second reset, 10 seconds after the first
C9_Witness ==
    /\ "reset" \in Range(bus_calls)
    /\ ~joints_OP_
    /\ stamp_ = 20
    /\ clock = 20

(***************************************************************************)
(* C10: in every cycle, bus receive, domain queue and bus send are each    *)
(* called exactly once, in the order receive, logic and target writes,     *)
(* queue, send.                                                            *)
(***************************************************************************)
Count(seq, x) == Cardinality({ i \in DOMAIN seq : seq[i] = x })

Logic == { "check_slave_config_states_", "state_transition_", "reset", "write_targets" }

\* the positions of the calls of `names` in the last cycle
Places(names) == { i \in DOMAIN bus_calls : bus_calls[i] \in names }

C10_ReceiveQueueSendOnce ==
    bus_calls # << >> =>
        /\ Count(bus_calls, "receive") = 1
        /\ Count(bus_calls, "queue") = 1
        /\ Count(bus_calls, "send") = 1
        /\ \A i \in Places({ "receive" }), k \in Places(Logic) : i < k
        /\ \A k \in Places(Logic), q \in Places({ "queue" }) : k < q
        /\ \A q \in Places({ "queue" }), s \in Places({ "send" }) : q < s

(***************************************************************************)
(* C10 as amended: queue and send are called exactly once per cycle, in    *)
(* that order and after all logic and target writes; receive is called     *)
(* once, first, except in a cycle whose gate branch resets the master,     *)
(* where it is called a second time right after the reset and before the   *)
(* target writes.                                                          *)
(***************************************************************************)
C10_ReceiveTwiceOnRetry ==
    bus_calls # << >> =>
        LET n     == Len(bus_calls)
            retry == "reset" \in Range(bus_calls)
        IN  /\ bus_calls[1] = "receive"
            /\ Count(bus_calls, "receive") = IF retry THEN 2 ELSE 1
            /\ Count(bus_calls, "reset") <= 1
            /\ \A i \in Places({ "reset" }) : bus_calls[i + 1] = "receive"
            /\ \A i \in Places({ "reset" }), k \in Places({ "write_targets" }) : i < k
            /\ Count(bus_calls, "queue") = 1
            /\ Count(bus_calls, "send") = 1
            /\ bus_calls[n - 1] = "queue"
            /\ bus_calls[n] = "send"
            /\ Places({ "check_slave_config_states_", "state_transition_" }) = { 3 }

\* a retry cycle
C10_Witness ==
    /\ "reset" \in Range(bus_calls)
    /\ Len(bus_calls) = 8

(***************************************************************************)
(* C11: when the status word of the addressed joint matches the FAULT      *)
(* pattern the recorded DriveState becomes FAULT and bit 7 of the          *)
(* ControlWord is set; and a joint recorded as FAULT is never recorded as  *)
(* OPERATION_ENABLED by the next run of the state machine: it returns      *)
(* through SWITCH_ON_DISABLED.                                             *)
(***************************************************************************)
C11_FaultRecoveryThroughSwitchOnDisabled ==
    [][ (CycleStep /\ joints_OP_)
        => LET j == joint_no_
           IN  /\ StatusRow(status_word'[j]) = "FAULT"
                    => /\ driveState'[j] = "FAULT"
                       /\ Bit(ctrl_word'[j], 7) = 1
               /\ driveState[j] = "FAULT"
                    => driveState'[j] # "OPERATION_ENABLED" ]_vars

(***************************************************************************)
(* C12: once the gate is ready, in every cycle and for every joint j whose *)
(* status word reads FAULT or FAULT_REACTION_ACTIVE, whether or not the    *)
(* cursor is on j, a ControlWord with bit 7 set is written for j.          *)
(***************************************************************************)
FaultRows == { "FAULT", "FAULT_REACTION_ACTIVE" }

C12_FaultResetForEveryJoint ==
    [][ (CycleStep /\ joints_OP_)
        => \A j \in Joints :
              StatusRow(status_word'[j]) \in FaultRows
                 => /\ j \in Range(cw_writes')
                    /\ Bit(ctrl_word'[j], 7) = 1 ]_vars

(***************************************************************************)
(* C13: when a startup step fails, the startup calls made are those up to  *)
(* the failing one and no later one, the timers are not created, and       *)
(* neither cyclic_pdo_loop_ nor joint_state_pub_ ever runs: no bus call is *)
(* made and the domain is neither read nor written.                        *)
(***************************************************************************)
StartupFailed ==
    /\ init_calls # << >>
    /\ ~timers_ \/ Len(init_calls) < Len(StartupSteps)

Zeroes == [j \in Joints |-> 0]

C13_FailedStartupRunsNothing ==
    StartupFailed =>
        /\ init_calls = SubSeq(StartupSteps, 1, Len(init_calls))
        /\ ~timers_
        /\ bus_calls = << >>
        /\ ~published
        /\ tp_writes = << >> /\ cw_writes = << >>
        /\ status_word = Zeroes /\ actual_pos = Zeroes
        /\ ctrl_word = Zeroes /\ target_pos = Zeroes
        /\ joint_states_enc_counts_ = Zeroes
        /\ cycles = 0

\* the PDO configuration of joint 0 failed and a command arrived afterwards
C13_Witness ==
    /\ Len(init_calls) = 4
    /\ init_calls[4] = << "ecrt_slave_config_pdos", 0 >>
    /\ commanded
    /\ ~timers_

(***************************************************************************)
(* C14: in a run of the state machine whose status word matches a row of   *)
(* the table, one state-change entry is logged when the recorded           *)
(* DriveState of the addressed joint differs from the row, and none when   *)
(* it already equals it: n consecutive cycles on the same row log once.    *)
(***************************************************************************)
C14_LogOnEdgeOnly ==
    [][ (CycleStep /\ joints_OP_)
        => LET j   == joint_no_
               row == StatusRow(status_word'[j])
           IN  log_' = IF row # "NONE" /\ driveState[j] # row
                       THEN << <<j, row>> >> ELSE << >> ]_vars

(***************************************************************************)
(* A step is a run of joint_state_pub_.                                    *)
(***************************************************************************)
PublishStep == joint_state_pub_

\* |c| > MAX_COUNT, for a 32-bit c
Beyond(c) == c > MAX_COUNT \/ c < -MAX_COUNT

(***************************************************************************)
(* C15: for every count c with |c| <= MAX_COUNT, the count that            *)
(* convert_count_to_rad_ scales is c itself.                               *)
(***************************************************************************)
C15_NoFoldWithinOneTurn ==
    [][ PublishStep
        => \A j \in Joints :
              ~Beyond(joint_states_enc_counts_[j])
                 => joint_states_'[j] = COUNT_TO_RAD(joint_states_enc_counts_[j]) ]_vars

\* the counts MAX_COUNT - 1 and MAX_COUNT were published unfolded
C15_Witness ==
    /\ published
    /\ joint_states_enc_counts_[1] = MAX_COUNT
    /\ joint_states_[0].num = MAX_COUNT - 1
    /\ joint_states_[1].num = MAX_COUNT

(***************************************************************************)
(* C16: for every 32-bit count c with |c| > MAX_COUNT, the count that      *)
(* convert_count_to_rad_ scales is sign(c) * (MAX_COUNT - (|c| mod         *)
(* MAX_COUNT)).                                                            *)
(***************************************************************************)
\* |c| mod m, computed without negating c
AbsMod(c, m) == IF c >= 0 THEN c % m ELSE (-(c + m)) % m

Folded(c) ==
    IF c > 0 THEN MAX_COUNT - AbsMod(c, MAX_COUNT)
    ELSE -(MAX_COUNT - AbsMod(c, MAX_COUNT))

C16_FoldBeyondOneTurn ==
    [][ PublishStep
        => \A j \in Joints :
              Beyond(joint_states_enc_counts_[j])
                 => joint_states_'[j].num = Folded(joint_states_enc_counts_[j]) ]_vars

(***************************************************************************)
(* C17: for adjacent counts c and c + 1 the counts that                    *)
(* convert_count_to_rad_ scales differ by at most 1.                       *)
(***************************************************************************)
Adjacent(a, b) == a = b \/ (a < b /\ a + 1 = b) \/ (b < a /\ b + 1 = a)

C17_AdjacentCountsStayAdjacent ==
    [][ (PublishStep /\ joint_states_enc_counts_[0] < INT32_MAX
           /\ joint_states_enc_counts_[1] = joint_states_enc_counts_[0] + 1)
        => Adjacent(joint_states_'[0].num, joint_states_'[1].num) ]_vars

(***************************************************************************)
(* C18: for every 16-bit status word at most one of the eight tests of     *)
(* state_transition_ succeeds, so the state recorded for the word is that  *)
(* of the one test that succeeds, whatever the order of the tests.         *)
(***************************************************************************)
MatchingRows(s) == { i \in DOMAIN RowTests : RowMatches(i, s) }

C18_RowsMutuallyExclusive ==
    cycles = 1 =>
        \A j \in Joints :
            /\ Cardinality(MatchingRows(status_word[j])) <= 1
            /\ status_word[j] # 0 =>
                  \A i \in MatchingRows(status_word[j]) : driveState[j] = RowTests[i][3]

\* an OPERATION_ENABLED status word with every bit outside the mask set
C18_Witness ==
    /\ cycles = 1
    /\ status_word[0] = 65280 + 128 + 16 + 39
    /\ MatchingRows(status_word[0]) = { 5 }
    /\ driveState[0] = "OPERATION_ENABLED"
    /\ joint_no_ = 1

(***************************************************************************)
(* C19: the state machine starts with the cursor at joint 0; the cursor    *)
(* advances by one exactly in the cycles in which the addressed joint      *)
(* reads OPERATION_ENABLED; a cycle of the state machine writes            *)
(* ControlWord, DriveState and (short of the reported completion)          *)
(* TargetPosition of the addressed joint only, and every joint before the  *)
(* addressed one has been recorded OPERATION_ENABLED; "all joints enabled" *)
(* is reported exactly in the cycle in which the cursor passes joint 5,    *)
(* which leaves the cursor at 0.                                           *)
(***************************************************************************)
C19_SequentialBringUp ==
    /\ [][ (CycleStep /\ ~joints_OP_ /\ joints_OP_') => joint_no_' = 0 ]_vars
    /\ [][ (CycleStep /\ joints_OP_)
           => LET j  == joint_no_
                  en == StatusRow(status_word'[j]) = "OPERATION_ENABLED"
              IN  /\ joint_no_' = IF en THEN (j + 1) % NUM_JOINTS ELSE j
                  /\ joints_op_enabled_' = (en /\ j = NUM_JOINTS - 1)
                  /\ \A k \in Joints \ { j } :
                        /\ ctrl_word'[k] = ctrl_word[k]
                        /\ driveState'[k] = driveState[k]
                        /\ ~joints_op_enabled_' => target_pos'[k] = target_pos[k]
                  /\ Range(cw_writes') \subseteq { j }
                  /\ \A i \in DOMAIN tp_writes' :
                        tp_writes'[i][2] = "snap" => tp_writes'[i][1] = j
                  /\ \A k \in 0 .. (j - 1) : driveState[k] = "OPERATION_ENABLED" ]_vars

\* all joints were reported enabled in a sweep in which joint 3 was first
\* read SWITCHED_ON
C19_Witness ==
    /\ joints_op_enabled_
    /\ joint_no_ = 0
    /\ stalls = 1
    /\ ctrl_word[3] = 15
    /\ \A j \in Joints : driveState[j] = "OPERATION_ENABLED"

(***************************************************************************)
(* C20: in steady state, after all joints have been reported enabled,      *)
(* every cycle evaluates the status word of every joint and updates its    *)
(* DriveState and ControlWord.                                             *)
(***************************************************************************)
C20_AllJointsAdvancedEveryCycle ==
    [][ (CycleStep /\ joints_OP_ /\ joints_op_enabled_)
        => \A j \in Joints :
              LET row == StatusRow(status_word'[j])
              IN  /\ driveState'[j] = DriveStateAfter(row, driveState[j])
                  /\ ctrl_word'[j] = ControlWordAfter(row, ctrl_word[j]) ]_vars

(***************************************************************************)
(* C21: every cycle runs exactly one of check_slave_config_states_ and     *)
(* state_transition_: the gate until it has reported ready, the state      *)
(* machine from then on.  joints_OP_ never becomes false again and the     *)
(* gate is not called again, so a link that drops later is not polled.     *)
(***************************************************************************)
C21_GateThenStateMachine ==
    /\ [][ CycleStep
           => /\ Count(bus_calls', "check_slave_config_states_")
                   + Count(bus_calls', "state_transition_") = 1
              /\ ("state_transition_" \in Range(bus_calls')) = joints_OP_
              /\ joints_OP_ => joint_ec_states' = joint_ec_states ]_vars
    /\ [][ joints_OP_ => joints_OP_' ]_vars

\* the state machine runs although the link of joint 0 is no longer operational
C21_Witness ==
    /\ joints_OP_
    /\ ~link_op[0]
    /\ joint_ec_states[0]
    /\ bus_calls[3] = "state_transition_"
    /\ driveState[0] = "OPERATION_ENABLED"

(***************************************************************************)
(* C22: a step that publishes changes the outbound message only: the       *)
(* domain, the ActualPosition cache, the cursor, every DriveState, the     *)
(* gate flags and JointCommand are left unchanged.                         *)
(***************************************************************************)
Publishes == joint_states_' # joint_states_ \/ published' # published

C22_PublishIsReadOnly ==
    [][ Publishes
        => UNCHANGED << ctrl_word, target_pos, status_word, actual_pos,
                        joint_states_enc_counts_, joint_no_, driveState,
                        joints_OP_, joints_op_enabled_, joint_ec_states,
                        joint_commands_, counter_, stamp_, bus_calls >> ]_vars

\* the positions of a state machine cycle were published
C22_Witness ==
    /\ published
    /\ joints_OP_
    /\ joint_states_enc_counts_[0] = 1000
    /\ \A j \in Joints : joint_states_[j] \in convert_count_to_rad_(1000)

(***************************************************************************)
(* C23: every publish reports, for all six joints, the positions received  *)
(* by the most recently completed cycle; every command callback replaces   *)
(* the six entries of JointCommand by those of one message; and every      *)
(* write of the targets from JointCommand uses the entries left by the     *)
(* most recently completed command callback.                               *)
(***************************************************************************)
C23_CallbacksAtomic ==
    /\ [][ Publishes
           => \A j \in Joints :
                 joint_states_'[j] \in convert_count_to_rad_(actual_pos[j]) ]_vars
    /\ [][ joint_commands_' # joint_commands_
           => \E r \in LoopRads :
                 joint_commands_' = [j \in Joints |-> RAD_TO_COUNT(LoopMsg(r)[j + 1])] ]_vars
    /\ [][ (CycleStep /\ \E j \in Joints : <<j, "cmd">> \in Range(tp_writes'))
           => target_pos' = joint_commands_ ]_vars

\* the second message was written to the targets and the positions of the
\* same cycle were published
C23_Witness ==
    /\ published
    /\ joints_op_enabled_
    /\ target_pos = [j \in Joints |-> RAD_TO_COUNT(2 + j + 1)]
    /\ actual_pos = LoopPositions(1000)
    /\ \A j \in Joints : joint_states_[j] \in convert_count_to_rad_(1000 + j)

(***************************************************************************)
(* C24: whatever the length of the position sequence of a message,         *)
(* arm_cmd_cb_ writes no index beyond 5 and JointCommand keeps its six     *)
(* entries.                                                                *)
(***************************************************************************)
C24_CommandWritesInRange ==
    /\ cmd_oob = NoOob
    /\ DOMAIN joint_commands_ = 0 .. 5

(***************************************************************************)
(* C25: in every cycle in which the status word of the addressed joint     *)
(* matches the SWITCHED_ON row and ActualPosition differs from             *)
(* TargetPosition, TargetPosition equals ActualPosition at the end of the  *)
(* cycle.                                                                  *)
(***************************************************************************)
SwitchedOnApart ==
    /\ CycleStep
    /\ joints_OP_
    /\ StatusRow(status_word'[joint_no_]) = "SWITCHED_ON"
    /\ actual_pos'[joint_no_] # target_pos[joint_no_]

C25_SnapInEverySwitchedOnCycle ==
    [][ SwitchedOnApart => target_pos'[joint_no_] = actual_pos'[joint_no_] ]_vars

(***************************************************************************)
(* C25 as amended: in such a cycle TargetPosition is set to ActualPosition *)
(* when the recorded DriveState of the joint was not yet SWITCHED_ON, and  *)
(* is left as it was when SWITCHED_ON was already recorded.                *)
(***************************************************************************)
C25_SnapOnlyOnFirstSwitchedOnCycle ==
    [][ SwitchedOnApart
        => target_pos'[joint_no_] =
              IF driveState[joint_no_] # "SWITCHED_ON" THEN actual_pos'[joint_no_]
              ELSE target_pos[joint_no_] ]_vars

\* a second SWITCHED_ON cycle left the target at 500 with the drive at 1000
C25_Witness ==
    /\ joints_OP_
    /\ driveState[0] = "SWITCHED_ON"
    /\ status_word[0] = 35
    /\ target_pos[0] = 500
    /\ actual_pos[0] = 1000
    /\ tp_writes = << >>

(***************************************************************************)
(* C26: the master is never reset in a cycle in which joints_OP_ is true   *)
(* at the time of the reset.                                               *)
(***************************************************************************)
C26_NoResetOnceGateReady == "reset" \in Range(bus_calls) => ~joints_OP_

(***************************************************************************)
(* C27: in the cycle in which the gate reports ready, the links of all six *)
(* joints are operational.                                                 *)
(***************************************************************************)
C27_ReadyMeansAllLinksOperational ==
    [][ (CycleStep /\ ~joints_OP_ /\ joints_OP_')
        => \A j \in Joints : link_op'[j] ]_vars

(***************************************************************************)
(* C28: the targets are written from JointCommand only in a cycle whose    *)
(* state_transition_ call completed a cursor sweep; every joint is then    *)
(* recorded OPERATION_ENABLED; a cycle that holds the cursor on a joint    *)
(* whose status is not OPERATION_ENABLED writes no target from             *)
(* JointCommand.                                                           *)
(***************************************************************************)
CommandWritten(writes) == \E j \in Joints : <<j, "cmd">> \in Range(writes)

C28_CommandWritesOnlyOnSweepCompletion ==
    [][ CycleStep
        => /\ CommandWritten(tp_writes')
                => /\ joints_OP_
                   /\ bus_calls'[3] = "state_transition_"
                   /\ joint_no_ = NUM_JOINTS - 1
                   /\ joint_no_' = 0
                   /\ joints_op_enabled_'
                   /\ \A j \in Joints : driveState'[j] = "OPERATION_ENABLED"
           /\ (joints_OP_ /\ StatusRow(status_word'[joint_no_]) # "OPERATION_ENABLED")
                => /\ ~CommandWritten(tp_writes')
                   /\ joint_no_' = joint_no_
                   /\ target_pos' = target_pos ]_vars

\* the sweep completed after joint 2 had been held in FAULT
C28_Witness ==
    /\ CommandWritten(tp_writes)
    /\ stalls = 1
    /\ ctrl_word[2] = 128
    /\ joints_op_enabled_

(***************************************************************************)
(* C29: the cursor joint_no_ is within 0..5 before and after every cycle.  *)
(***************************************************************************)
C29_CursorInRange == joint_no_ \in 0 .. 5

\* the cursor is held on the last joint, which reports FAULT
C29_Witness ==
    /\ joints_OP_
    /\ joint_no_ = 5
    /\ driveState[5] = "FAULT"
    /\ \A j \in 0 .. 4 : driveState[j] = "OPERATION_ENABLED"

(***************************************************************************)
(* C30: a run of the state machine on a status word that matches none of   *)
(* the eight rows leaves DriveState, ControlWord and TargetPosition of the *)
(* addressed joint and the cursor unchanged and reports not-all-enabled;   *)
(* and every run leaves ControlWord, DriveState and TargetPosition of the  *)
(* other joints as they were (TargetPosition short of the JointCommand     *)
(* loop of the cycle).  The rows are stated on the bit fields of the       *)
(* status word.                                                            *)
(***************************************************************************)
InTable(s) ==
    LET low == s % 16
        b5  == Bit(s, 5)
        b6  == Bit(s, 6)
    IN  \/ low = 0
        \/ low \in { 1, 3, 7 } /\ b5 = 1 /\ b6 = 0
        \/ low = 7 /\ b5 = 0 /\ b6 = 0
        \/ low \in { 8, 15 } /\ b6 = 0

C30_UnmatchedStatusIsNoOp ==
    [][ (CycleStep /\ joints_OP_)
        => LET j == joint_no_
           IN  /\ ~InTable(status_word'[j])
                    => /\ driveState'[j] = driveState[j]
                       /\ ctrl_word'[j] = ctrl_word[j]
                       /\ target_pos'[j] = target_pos[j]
                       /\ joint_no_' = j
                       /\ ~joints_op_enabled_'
                       /\ cw_writes' = << >> /\ tp_writes' = << >> /\ log_' = << >>
               /\ \A k \in Joints \ { j } :
                     /\ driveState'[k] = driveState[k]
                     /\ ctrl_word'[k] = ctrl_word[k]
                     /\ target_pos'[k] = target_pos[k] \/ CommandWritten(tp_writes') ]_vars

\* joint 5, recorded OPERATION_ENABLED with ControlWord 0xFF, read 0x02
C30_Witness ==
    /\ cycles = 1
    /\ joint_no_ = 5
    /\ status_word[5] = 2
    /\ driveState[5] = "OPERATION_ENABLED"
    /\ ctrl_word[5] = 255
    /\ log_ = << >>

(***************************************************************************)
(* C33: the housekeeping branch of cyclic_pdo_loop_ (counter_ found 0 and  *)
(* reloaded) runs exactly once every 1000/P cycles, i.e. counted from the  *)
(* first cycle, which runs it, in the cycles 1, 1 + 1000/P, 1 + 2*1000/P,  *)
(* ...; and counter_ stays within 0 .. 1000/P.                             *)
(***************************************************************************)
Housekeeping == CycleStep /\ counter_ = 0 /\ counter_' = CounterReload

C33_HousekeepingOncePerSecond ==
    /\ [][ CycleStep => (Housekeeping <=> cycles % CounterReload = 0) ]_vars
    /\ [][ counter_' \in 0 .. CounterReload ]_vars

(***************************************************************************)
(* C31: once the node runs, with links that come up and stay up the gate   *)
(* eventually reports ready; and from then on, with drives that react to   *)
(* the control words as the device profile prescribes, a cycle eventually  *)
(* reports all joints enabled and writes the targets from JointCommand.    *)
(***************************************************************************)
C31_BringUpLiveness ==
    /\ timers_ ~> joints_OP_
    /\ joints_OP_ ~> (joints_op_enabled_ /\ CommandWritten(tp_writes))

\* the targets were written after a drive had reported a fault or a link
\* had dropped, and after a master reset
C31_Witness ==
    /\ joints_op_enabled_
    /\ CommandWritten(tp_writes)
    /\ stalls = 1
    /\ stamp_ >= OP_TIMEOUT
    /\ \A j \in Joints : status_word[j] = 39

(***************************************************************************)
(* C32: a joy_cb_ call that starts with input disabled publishes no        *)
(* JointJog, Twist or Pose message and changes neither the command type,   *)
(* the selected joint nor the speeds, whatever the message; enabled_       *)
(* changes only in a call whose message holds GUIDE after a message that   *)
(* did not (or as the first message), and every such call toggles it, so   *)
(* that GUIDE held across several messages toggles it once.                *)
(***************************************************************************)
JoyCall == cycles' = cycles + 1

C32_DisabledControllerIsInert ==
    /\ [][ (JoyCall /\ ~enabled_)
           => /\ \A i \in DOMAIN joy_pub' :
                    joy_pub'[i] \notin { "JointJog", "Twist", "Pose",
                                         "switch_command_type" }
              /\ command_type' = command_type
              /\ joint_num_' = joint_num_
              /\ joint_vel_cmd_' = joint_vel_cmd_
              /\ cartesian_step_size_' = cartesian_step_size_ ]_vars
    /\ [][ JoyCall
           => (enabled_' # enabled_) = ("GUIDE" \in joy_' /\ "GUIDE" \notin joy_) ]_vars

\* disabled again after having been enabled, GUIDE still held and the right
\* bumper pressed: nothing is published
C32_Witness ==
    /\ cycles = 4
    /\ ~enabled_
    /\ ~enable_cmd_toggle_
    /\ joy_ = { "GUIDE", "RIGHT_BUMPER" }
    /\ joy_pub = << >>

====
